---------------------------- MODULE Spec2Model ----------------------------
(***************************************************************************)
(* The coordinated work pipeline of the crawler:                           *)
(*   Work Queue -> Work Filter -> Worker pool -> Results channel,          *)
(* with Workers (and the HTML link extractor they run) adding new Tasks to *)
(* the Work Queue, and the Supervisor shutting down on quiescence.         *)
(*                                                                         *)
(* Strings are TLA+ strings; Go's byte indexing s[i] is Ch(s, i + 1).      *)
(***************************************************************************)
EXTENDS Integers, Sequences, FiniteSets, TLC

(***************************************************************************)
(* Bounds of the model.                                                    *)
(***************************************************************************)
MaxWorkers == 2
MaxQueue == 1
\* responses of the server in one run that carry links, and that redirect
MaxLinkPages == 1
MaxRedirects == 1

\* a nil pointer is the empty sequence, a set one a sequence of one element
Nil == <<>>

(***************************************************************************)
(* Go string helpers (package strings / path), computed on characters.     *)
(***************************************************************************)
Ch(s, i) == SubSeq(s, i, i)

RECURSIVE LastIndexFrom(_, _, _)
LastIndexFrom(s, c, i) ==
    IF i = 0 THEN -1
    ELSE IF Ch(s, i) = c THEN i - 1
    ELSE LastIndexFrom(s, c, i - 1)

\* strings.LastIndex(s, c) for a one-character c: 0-based, -1 when absent
LastIndex(s, c) == LastIndexFrom(s, c, Len(s))

HasPrefix(s, p) == Len(s) >= Len(p) /\ SubSeq(s, 1, Len(p)) = p

RECURSIVE SplitFrom(_, _, _)
SplitFrom(s, i, cur) ==
    IF i > Len(s) THEN <<cur>>
    ELSE IF Ch(s, i) = "/" THEN <<cur>> \o SplitFrom(s, i + 1, "")
    ELSE SplitFrom(s, i + 1, cur \o Ch(s, i))

\* strings.Split(s, "/")
Split(s) == SplitFrom(s, 1, "")

RECURSIVE Join(_)
\* strings.Join(segs, "/")
Join(segs) ==
    IF Len(segs) = 0 THEN ""
    ELSE IF Len(segs) = 1 THEN segs[1]
    ELSE segs[1] \o "/" \o Join(Tail(segs))

RECURSIVE TrimRightSlash(_)
\* strings.TrimRight(s, "/")
TrimRightSlash(s) ==
    IF Len(s) > 0 /\ Ch(s, Len(s)) = "/" THEN TrimRightSlash(SubSeq(s, 1, Len(s) - 1))
    ELSE s

RECURSIVE CleanSegs(_, _, _)
CleanSegs(segs, rooted, stack) ==
    IF Len(segs) = 0 THEN stack
    ELSE LET s == Head(segs)
             rest == Tail(segs)
         IN  IF s = "" \/ s = "." THEN CleanSegs(rest, rooted, stack)
             ELSE IF s = ".."
                  THEN IF Len(stack) > 0 /\ stack[Len(stack)] # ".."
                       THEN CleanSegs(rest, rooted, SubSeq(stack, 1, Len(stack) - 1))
                       ELSE IF rooted THEN CleanSegs(rest, rooted, stack)
                       ELSE CleanSegs(rest, rooted, Append(stack, s))
                  ELSE CleanSegs(rest, rooted, Append(stack, s))

\* path.Clean(p)
Clean(p) ==
    IF p = "" THEN "."
    ELSE LET rooted == Ch(p, 1) = "/"
             body == Join(CleanSegs(Split(p), rooted, <<>>))
             out == IF rooted THEN "/" \o body ELSE body
         IN  IF out = "" THEN "." ELSE out

(***************************************************************************)
(* URLs and Tasks.                                                         *)
(***************************************************************************)
URL(path, frag) == [Scheme |-> "http", Host |-> "h", Path |-> path, Fragment |-> frag]

\* an exclusion parsed from settings.ExcludePaths: a bare path, no scheme or host
PathURL(path) == [Scheme |-> "", Host |-> "", Path |-> path, Fragment |-> ""]

NewTask(u) == [URL |-> u]

\* placeholder of a Task variable that holds no Task
NoTask == [URL |-> [Scheme |-> "", Host |-> "", Path |-> "", Fragment |-> ""]]

\* url.URL.String()
URLString(u) ==
    (IF u.Scheme # "" THEN u.Scheme \o "://" ELSE "") \o u.Host \o u.Path
        \o (IF u.Fragment # "" THEN "#" \o u.Fragment ELSE "")

\* task.Task.String(): the Filter's canonical key
TaskString(t) == URLString(t.URL)

URLIsDir(u) ==
    LET l == Len(u.Path)
    IN  IF l = 0 THEN TRUE ELSE Ch(u.Path, l) = "/"

URLIsSubpath(parent, child) ==
    IF parent.Scheme # "" /\ child.Scheme # parent.Scheme THEN FALSE
    ELSE IF parent.Host # "" /\ child.Host # parent.Host THEN FALSE
    ELSE IF parent.Path = "/" THEN TRUE
    ELSE LET pPath == Clean(parent.Path)
             cPath == Clean(child.Path)
         IN  IF Len(cPath) < Len(pPath) THEN FALSE
             ELSE IF cPath = pPath THEN TRUE
             ELSE IF ~HasPrefix(cPath, pPath) THEN FALSE
             ELSE Ch(cPath, Len(pPath) + 1) = "/"

getParentPathsString(childPath) ==
    LET splitPath == Split(TrimRightSlash(childPath))
    IN  [k \in 1..(IF Len(splitPath) > 2 THEN Len(splitPath) - 2 ELSE 0) |->
            Join(SubSeq(splitPath, 1, k + 1))]

GetParentPaths(child) ==
    LET paths == getParentPathsString(TrimRightSlash(child.Path))
    IN  [k \in 1..Len(paths) |-> [child EXCEPT !.Path = paths[k]]]

\* faulty variant of Mangle: the backup names come before the editor names
Mangle_Reordered(basename) ==
    << basename \o ".bak", basename \o ".orig", "." \o basename \o ".swp", basename \o "~" >>

\* Mangle a basename
Mangle(basename) ==
    << "." \o basename \o ".swp", basename \o "~", basename \o ".bak", basename \o ".orig" >>


(***************************************************************************)
(* Settings consumed by the core, and the inputs of a run.                 *)
(***************************************************************************)
RunModeEnumeration == "Enumeration"
RunModeLinkCheck == "LinkCheck"
RunModeDotProduct == "DotProduct"

SpiderCodes == {200}

ExcludeChoices == { <<>>, <<"/f.bak">> }

\* the settings explored; the mangling pass, whose probes run one after the other
\* inside HandleTask, is explored with a single Worker
SettingsSet ==
    { s \in [ Workers : 1..MaxWorkers,
              QueueSize : 1..MaxQueue,
              Mangle : BOOLEAN,
              ParseHTML : BOOLEAN,
              RunMode : {RunModeEnumeration, RunModeLinkCheck, RunModeDotProduct},
              ExcludePaths : ExcludeChoices ] :
        s.Workers > 1 => ~s.Mangle }

\* the seed Tasks handed to the Work Queue
Seeds == << NewTask(URL("/", "")) >>

\* link lists a page may hold, already deduplicated and resolved against the Task's URL
Pages ==
    { <<>>,
      << URL("/f", "x"), URL("/f.bak", "") >>,
      << URL("/f", "x"), URL("/f.bak", ""), URL("/f", ""), URL("/f.bak", "y") >> }

\* targets the server may redirect to
RedirTargets == { URL("/a/b/", "") }

\* what client.Request can return: (resp, err) and whether the redirect handler ran
Responses ==
    { [kind |-> "neterr", code |-> 0, redir |-> Nil, html |-> FALSE, links |-> <<>>] }
    \cup { [kind |-> "resperr", code |-> c, redir |-> Nil, html |-> FALSE, links |-> <<>>] :
             c \in {200, 404} }
    \cup { [kind |-> "ok", code |-> c, redir |-> Nil, html |-> FALSE, links |-> <<>>] :
             c \in {200, 404} }
    \cup { [kind |-> "ok", code |-> 200, redir |-> Nil, html |-> TRUE, links |-> p] :
             p \in Pages }
    \cup { [kind |-> "redirect", code |-> 302, redir |-> <<u>>, html |-> FALSE, links |-> <<>>] :
             u \in RedirTargets }

(***************************************************************************)
(* Package results: baselines and the differential results manager.        *)
(***************************************************************************)
UpperLetters == "ABCDEFGHIJKLMNOPQRSTUVWXYZ"
LowerLetters == "abcdefghijklmnopqrstuvwxyz"

LowerCh(c) ==
    IF \E k \in 1..Len(UpperLetters) : Ch(UpperLetters, k) = c
    THEN Ch(LowerLetters, CHOOSE k \in 1..Len(UpperLetters) : Ch(UpperLetters, k) = c)
    ELSE c

RECURSIVE ToLower(_)
\* strings.ToLower(s)
ToLower(s) == IF Len(s) = 0 THEN "" ELSE LowerCh(Ch(s, 1)) \o ToLower(SubSeq(s, 2, Len(s)))

neverImportant == << "etag", "cache-control" >>

StringSliceContains(haystack, needle) ==
    \E k \in 1..Len(haystack) : haystack[k] = needle

\* a results.Result as the results manager reads it; ResponseHeader maps a header
\* key, as stored, to the first of its values
DiffResult(group, path, code, header) ==
    [ResultGroup |-> group, URL |-> URL(path, ""), Code |-> code, ResponseHeader |-> header]

\* h[k][0] of a header map: indexing an absent key gives a nil slice, whose [0] panics
HeaderPanics(h, k) == k \notin DOMAIN h

\* NewBaselineResult, header loop, for the key K of results[0]: whether it panics
BaselineKeyPanics(results, K) ==
    LET k == ToLower(K)
    IN  /\ ~StringSliceContains(neverImportant, k)
        /\ \/ HeaderPanics(results[1].ResponseHeader, k)
           \/ \E j \in 2..Len(results) :
                 /\ HeaderPanics(results[j].ResponseHeader, k)
                 /\ \A m \in 2..(j - 1) :
                       results[m].ResponseHeader[k] = results[1].ResponseHeader[k]

\* NewBaselineResult, header loop, for a key that does not panic: matches
BaselineKeyMatches(results, K) ==
    LET k == ToLower(K)
    IN  /\ ~StringSliceContains(neverImportant, k)
        /\ \A j \in 2..Len(results) :
              results[j].ResponseHeader[k] = results[1].ResponseHeader[k]

\* NewBaselineResult(results...): an error, a panic, or the baseline; the order of
\* HeadersSignificant follows Go's map iteration and is kept as a set
NewBaselineResult(results) ==
    IF Len(results) = 0 THEN [kind |-> "err", res |-> Nil]
    ELSE IF \E K \in DOMAIN results[1].ResponseHeader : BaselineKeyPanics(results, K)
    THEN [kind |-> "panic", res |-> Nil]
    ELSE [kind |-> "ok",
          res |-> << [ Result |-> results[1],
                       PathSignificant |->
                           \A k \in 1..(Len(results) - 1) :
                               results[k].URL.Path = results[k + 1].URL.Path,
                       HeadersSignificant |->
                           { ToLower(K) : K \in { X \in DOMAIN results[1].ResponseHeader :
                                                     BaselineKeyMatches(results, X) } },
                       CodeSignificant |->
                           \A k \in 1..(Len(results) - 1) :
                               results[k].Code = results[k + 1].Code ] >> ]

\* BaselineResult.Matches
Matches(b, a) ==
    IF b.PathSignificant /\ b.Result.URL.Path # a.URL.Path THEN FALSE
    ELSE IF b.CodeSignificant /\ b.Result.Code # a.Code THEN FALSE
    ELSE TRUE

\* DiffResultsManager.Append on the keep map
KeepAppend(keep, result) ==
    IF result.ResultGroup \in DOMAIN keep
    THEN [keep EXCEPT ![result.ResultGroup] = Append(@, result)]
    ELSE (result.ResultGroup :> << result >>) @@ keep

\* bounds of the results manager's runs: Results sent, AddGroup calls
MaxResults == 3
MaxGroups == 2

\* sample lists handed to AddGroup
SampleLists ==
    { <<>>,
      << DiffResult("g1", "/a", 200, ("server" :> "x")) >>,
      << DiffResult("g1", "/a", 200, ("server" :> "x")),
         DiffResult("g1", "/b", 200, ("server" :> "x")) >>,
      << DiffResult("g1", "/a", 200, ("Server" :> "x")) >>,
      << DiffResult("g2", "/a", 200, ("etag" :> "1")),
         DiffResult("g2", "/a", 404, ("etag" :> "2")) >>,
      << DiffResult("g1", "/a", 200, ("server" :> "x")),
         DiffResult("g1", "/a", 200, <<>>) >> }

\* Results the pipeline may send to the results manager
DiffResults ==
    { DiffResult("g1", "/a", 200, ("server" :> "x")),
      DiffResult("g1", "/a", 200, ("server" :> "y")),
      DiffResult("g1", "/b", 200, ("server" :> "x")),
      DiffResult("g2", "/a", 404, ("etag" :> "1")),
      DiffResult("g3", "/a", 200, <<>>) }

\* NewDiffResultsManager: empty maps, done not closed, nothing written to fp
NewDiffResultsManager ==
    [ pc |-> "setup",        \* "setup" | "run" | "written" | "closed" | "panic"
      baselines |-> <<>>,    \* drm.baselines: ResultGroup -> BaselineResult
      samples |-> <<>>,      \* ResultGroup -> the samples its baseline was built from
      addErrs |-> 0,         \* AddGroup calls that returned an error
      keep |-> <<>>,         \* drm.keep: ResultGroup -> kept Results, in order
      recv |-> <<>>,         \* Results read from rChan, in order
      dropped |-> 0,         \* Results read and not kept
      out |-> <<>>,          \* what reached drm.fp: ResultGroup -> Results written
      sinkOK |-> TRUE,       \* whether drm.fp accepts writes
      werr |-> FALSE,        \* WriteResults returned an error
      flushed |-> FALSE,     \* fp.Flush() has run
      fpClosed |-> FALSE,    \* drm.fp.Close() has run
      closes |-> 0,          \* times close(drm.done) ran
      waited |-> FALSE,      \* a Wait() has returned
      produced |-> 0 ]       \* Results sent on rChan by the producer

VARIABLES
    settings,    \* ss.ScanSettings of the run
    ctr,         \* Work Queue: outstanding counter
    quiesced,    \* Work Queue: the quiescence signal (one-shot latch)
    inq,         \* Work Queue: bounded input channel
    inClosed,    \* input channel closed by the Supervisor
    fpc,         \* Filter goroutine: "recv" | "check" | "send" | "closed"
    ftask,       \* Filter: the Task t of the current loop iteration
    done,        \* WorkFilter.done: keys seen
    exclusions,  \* WorkFilter.exclusions
    outq,        \* Filter output channel c
    outClosed,   \* close(c) has run
    worker,      \* per Worker: position and locals
    rchan,       \* Results channel
    rClosed,     \* Results channel closed by the Supervisor
    sup,         \* Supervisor: position, Tasks still to send, Workers waited for
    drm,         \* DiffResultsManager: its maps, its goroutine and its output sink
    util,        \* a caller of util.GetParentPaths: its argument and the slice returned
    start,       \* StartWorkers: position in its loop
    hist         \* observations of the run (no effect on behaviour)

vars == << settings, ctr, quiesced, inq, inClosed, fpc, ftask, done, exclusions,
           outq, outClosed, worker, rchan, rClosed, sup, drm, util, start, hist >>

Workers == DOMAIN worker

\* no call of util.GetParentPaths under way
NoCall == [pc |-> "idle", child |-> NoTask.URL, results |-> <<>>]

\* StartWorkers has returned: its loop ran settings.Workers times
StartWorkersReturned(s) == [pc |-> "returned", i |-> s.Workers]

NoResp == [kind |-> "none", code |-> 0, redir |-> Nil, html |-> FALSE, links |-> <<>>]

\* StartWorkers: the condition under which it calls SetPageWorker
PageWorkerWanted(s) ==
    (s.ParseHTML /\ s.RunMode = RunModeEnumeration) \/ s.RunMode = RunModeLinkCheck

\* NewWorker, with the page worker StartWorkers attaches
NewWorker(s) ==
    [ pc |-> "select",
      t |-> NoTask,        \* HandleTask's t
      probe |-> 0,         \* 0: the Task itself, k > 0: the k-th mangled clone
      clones |-> <<>>,     \* TryMangleTask: clones still to try
      tt |-> NoTask,       \* TryTask's t
      resp |-> NoResp,     \* (resp, err) of the current probe
      redir |-> Nil,       \* w.redir
      batches |-> <<>>,    \* adder calls still to make in this probe
      sendq |-> <<>>,      \* Tasks of the current adder call still to send
      code |-> 0,          \* status code of the original probe
      pageWorker |-> PageWorkerWanted(s),
      results |-> 0,       \* Results sent on rchan for the current Task
      dones |-> 0,         \* done(1) calls for the current Task
      stop |-> "idle",     \* w.stop: "idle" | "sent" (Stop() blocked) | "taken" | "waited"
      added |-> <<>>,      \* Tasks counted by the adder calls of the current HandleTask
      sent |-> 0,          \* Tasks those adder calls have sent on the input channel
      base |-> 0,          \* Len(added) when the current probe started
      extracted |-> <<>> ] \* Tasks HTMLWorker.Handle built during the current HandleTask

\* NewWorkFilter: one exclusion per parseable ExcludePaths entry
NewExclusions(s) == [k \in 1..Len(s.ExcludePaths) |-> PathURL(s.ExcludePaths[k])]

EmptyBag == [u \in {} |-> 0]

BagAdd(b, k) ==
    IF k \in DOMAIN b THEN [b EXCEPT ![k] = @ + 1]
    ELSE [x \in DOMAIN b \cup {k} |-> IF x = k THEN 1 ELSE b[x]]

BagCount(b, k) == IF k \in DOMAIN b THEN b[k] ELSE 0

RECURSIVE SumOver(_, _)
SumOver(b, S) ==
    IF S = {} THEN 0
    ELSE LET k == CHOOSE x \in S : TRUE IN b[k] + SumOver(b, S \ {k})

BagTotal(b) == SumOver(b, DOMAIN b)

Init ==
    /\ settings \in SettingsSet
    /\ ctr = 0
    /\ quiesced = FALSE
    /\ inq = <<>>
    /\ inClosed = FALSE
    /\ fpc = "recv"
    /\ ftask = NoTask
    /\ done = {}
    /\ exclusions = NewExclusions(settings)
    /\ outq = <<>>
    /\ outClosed = FALSE
    /\ worker = [i \in 1..settings.Workers |-> NewWorker(settings)]
    /\ rchan = <<>>
    /\ rClosed = FALSE
    /\ sup = [pc |-> "seed", sendq |-> <<>>, waited |-> {}]
    /\ drm = NewDiffResultsManager
    /\ util = NoCall
    /\ start = StartWorkersReturned(settings)
    /\ hist = [ addCalls |-> 0,      \* calls of Add
                adds |-> 0,          \* Tasks passed to Add
                dones |-> 0,         \* sum of the n of every Done(n)
                fires |-> 0,         \* times Done saw the counter reach zero
                read |-> EmptyBag,       \* URL -> times the Filter read a Task with it
                readRaw |-> EmptyBag,    \* URL as received, fragment included -> times read
                forwarded |-> EmptyBag,  \* URL -> times the Filter forwarded a Task with it
                rejected |-> EmptyBag,   \* <<URL, reason>> -> times the Filter rejected it
                handled |-> 0,       \* Tasks that entered HandleTask
                workerDones |-> 0,   \* done(1) calls made by Workers
                requested |-> EmptyBag,  \* URL -> requests sent to the server for it
                linkPages |-> 0,     \* responses served that carried links
                redirects |-> 0 ]    \* responses served that redirected



(***************************************************************************)
(* Work Queue: Add counts first and then sends; Done decrements and fires  *)
(* the quiescence signal when the counter reaches zero.                    *)
(***************************************************************************)
\* Add(t1, ..., tn), first half: the counter goes up by n
QueueAddCount(n, h) ==
    /\ ctr' = ctr + n
    /\ hist' = [h EXCEPT !.addCalls = @ + 1, !.adds = @ + n]

\* Done(n)
QueueDone(n, h) ==
    /\ ctr' = ctr - n
    /\ quiesced' = (quiesced \/ ctr - n = 0)
    /\ hist' = [h EXCEPT !.dones = @ + n,
                         !.fires = IF ctr - n = 0 THEN @ + 1 ELSE @]

(***************************************************************************)
(* Supervisor.                                                             *)
(***************************************************************************)
Sup_Seed ==
    /\ sup.pc = "seed"
    /\ QueueAddCount(Len(Seeds), hist)
    /\ sup' = [sup EXCEPT !.pc = "seeding", !.sendq = Seeds]
    /\ UNCHANGED << settings, drm, util, start, quiesced, inq, inClosed, fpc, ftask, done, exclusions,
                    outq, outClosed, worker, rchan, rClosed >>

Sup_Send ==
    /\ sup.pc = "seeding"
    /\ Len(inq) < settings.QueueSize
    /\ inq' = Append(inq, Head(sup.sendq))
    /\ sup' = [sup EXCEPT !.sendq = Tail(@),
                          !.pc = IF Len(sup.sendq) = 1 THEN "wait" ELSE "seeding"]
    /\ UNCHANGED << settings, drm, util, start, ctr, quiesced, inClosed, fpc, ftask, done, exclusions,
                    outq, outClosed, worker, rchan, rClosed, hist >>

\* Work Queue Wait(), then close of the input channel
Sup_WaitQueue ==
    /\ sup.pc = "wait"
    /\ start.pc = "returned"
    /\ quiesced
    /\ sup' = [sup EXCEPT !.pc = "close"]
    /\ UNCHANGED << settings, drm, util, start, ctr, quiesced, inq, inClosed, fpc, ftask, done, exclusions,
                    outq, outClosed, worker, rchan, rClosed, hist >>

Sup_CloseInput ==
    /\ sup.pc = "close"
    /\ inClosed' = TRUE
    /\ sup' = [sup EXCEPT !.pc = "join"]
    /\ UNCHANGED << settings, drm, util, start, ctr, quiesced, inq, fpc, ftask, done, exclusions,
                    outq, outClosed, worker, rchan, rClosed, hist >>

\* faulty variant of Worker_Wait: Wait returns without the Worker having posted
Worker_Wait_NoRendezvous(i) ==
    /\ sup.pc = "join"
    /\ i \in Workers \ sup.waited
    /\ \A j \in Workers \ sup.waited : i <= j
    /\ sup' = [sup EXCEPT !.waited = @ \cup {i}]
    /\ UNCHANGED << settings, drm, util, start, ctr, quiesced, inq, inClosed, fpc, ftask, done, exclusions,
                    outq, outClosed, worker, rchan, rClosed, hist >>

\* Worker.Wait() on the next Worker: a rendezvous with the deferred w.waitq <- true
Worker_Wait(i) ==
    /\ sup.pc = "join"
    /\ i \in Workers \ sup.waited
    /\ \A j \in Workers \ sup.waited : i <= j
    /\ worker[i].pc = "exiting"
    /\ worker' = [worker EXCEPT ![i].pc = "exited"]
    /\ sup' = [sup EXCEPT !.waited = @ \cup {i}]
    /\ UNCHANGED << settings, drm, util, start, ctr, quiesced, inq, inClosed, fpc, ftask, done, exclusions,
                    outq, outClosed, rchan, rClosed, hist >>

Sup_CloseResults ==
    /\ sup.pc = "join"
    /\ sup.waited = Workers
    /\ rClosed' = TRUE
    /\ sup' = [sup EXCEPT !.pc = "end"]
    /\ UNCHANGED << settings, drm, util, start, ctr, quiesced, inq, inClosed, fpc, ftask, done, exclusions,
                    outq, outClosed, worker, rchan, hist >>

(***************************************************************************)
(* Work Filter.                                                            *)
(***************************************************************************)
\* faulty variant of RunFilter_Recv: the fragment is left in place
RunFilter_Recv_KeepFragment ==
    /\ fpc = "recv"
    /\ Len(inq) > 0
    /\ ftask' = Head(inq)
    /\ inq' = Tail(inq)
    /\ fpc' = "check"
    /\ hist' = [hist EXCEPT !.read = BagAdd(@, ftask'.URL),
                        !.readRaw = BagAdd(@, Head(inq).URL)]
    /\ UNCHANGED << settings, drm, util, start, ctr, quiesced, inClosed, done, exclusions,
                    outq, outClosed, worker, rchan, rClosed, sup >>

\* for t := range src; t.URL.Fragment = ""
RunFilter_Recv ==
    /\ fpc = "recv"
    /\ Len(inq) > 0
    /\ ftask' = [Head(inq) EXCEPT !.URL.Fragment = ""]
    /\ inq' = Tail(inq)
    /\ fpc' = "check"
    /\ hist' = [hist EXCEPT !.read = BagAdd(@, ftask'.URL),
                        !.readRaw = BagAdd(@, Head(inq).URL)]
    /\ UNCHANGED << settings, drm, util, start, ctr, quiesced, inClosed, done, exclusions,
                    outq, outClosed, worker, rchan, rClosed, sup >>

\* the exclusion loop
Excluded(t) == \E k \in 1..Len(exclusions) : URLIsSubpath(exclusions[k], t.URL)

\* faulty variant of reject: the rejected Task is dropped without f.counter(1)
reject_NoCount(t, reason, h) ==
    /\ UNCHANGED << ctr, quiesced >>
    /\ hist' = [h EXCEPT !.rejected = BagAdd(@, << t.URL, reason >>)]

\* WorkFilter.reject: the Task is counted as terminated
reject(t, reason, h) ==
    QueueDone(1, [h EXCEPT !.rejected = BagAdd(@, << t.URL, reason >>)])

\* faulty variant of RunFilter_Check: "continue" instead of "continue taskLoop", so an
\* excluded Task is rejected and sent on all the same
RunFilter_Check_FallThrough ==
    /\ fpc = "check"
    /\ LET taskURL == TaskString(ftask)
       IN  IF taskURL \in done
           THEN /\ reject(ftask, "already done", hist)
                /\ fpc' = "recv"
                /\ UNCHANGED done
           ELSE /\ done' = done \cup {taskURL}
                /\ fpc' = "send"
                /\ IF Excluded(ftask)
                   THEN reject(ftask, "excluded", hist)
                   ELSE UNCHANGED << ctr, quiesced, hist >>
    /\ UNCHANGED << settings, drm, util, start, inq, inClosed, ftask, exclusions,
                    outq, outClosed, worker, rchan, rClosed, sup >>

\* the body of the loop up to the send
RunFilter_Check ==
    /\ fpc = "check"
    /\ LET taskURL == TaskString(ftask)
       IN  IF taskURL \in done
           THEN /\ reject(ftask, "already done", hist)
                /\ fpc' = "recv"
                /\ UNCHANGED done
           ELSE /\ done' = done \cup {taskURL}
                /\ IF Excluded(ftask)
                   THEN /\ reject(ftask, "excluded", hist)
                        /\ fpc' = "recv"
                   ELSE /\ fpc' = "send"
                        /\ UNCHANGED << ctr, quiesced, hist >>
    /\ UNCHANGED << settings, drm, util, start, inq, inClosed, ftask, exclusions,
                    outq, outClosed, worker, rchan, rClosed, sup >>

\* c <- t
RunFilter_Send ==
    /\ fpc = "send"
    /\ Len(outq) < settings.QueueSize
    /\ outq' = Append(outq, ftask)
    /\ fpc' = "recv"
    /\ hist' = [hist EXCEPT !.forwarded = BagAdd(@, ftask.URL)]
    /\ UNCHANGED << settings, drm, util, start, ctr, quiesced, inq, inClosed, ftask, done, exclusions,
                    outClosed, worker, rchan, rClosed, sup >>

\* src closed and drained: close(c)
RunFilter_Close ==
    /\ fpc = "recv"
    /\ Len(inq) = 0
    /\ inClosed
    /\ outClosed' = TRUE
    /\ fpc' = "closed"
    /\ UNCHANGED << settings, drm, util, start, ctr, quiesced, inq, inClosed, ftask, done, exclusions,
                    outq, worker, rchan, rClosed, sup, hist >>


(***************************************************************************)
(* HTTP probe Worker.                                                      *)
(***************************************************************************)
\* Should we keep spidering from this code?
KeepSpidering(code) ==
    IF settings.RunMode = RunModeDotProduct THEN FALSE
    ELSE code \in SpiderCodes

\* TryMangleTask: the clones it passes to TryTask, in order
TryMangleTask(t) ==
    IF ~settings.Mangle THEN <<>>
    ELSE LET spos == LastIndex(t.URL.Path, "/")
         IN  IF spos = -1 THEN <<>>
             ELSE LET dirname == SubSeq(t.URL.Path, 1, spos)
                      basename == SubSeq(t.URL.Path, spos + 2, Len(t.URL.Path))
                      names == Mangle(basename)
                  IN  [k \in 1..Len(names) |->
                          [t EXCEPT !.URL.Path = dirname \o "/" \o names[k]]]

\* HandleTask, after code := w.TryTask(t): the probes that follow
HandleTaskClones(t, code) ==
    IF ~URLIsDir(t.URL) /\ KeepSpidering(code) THEN TryMangleTask(t) ELSE <<>>

RECURSIVE FoundURLs(_)
\* HTMLWorker.Handle: each resolved link followed by its parent paths
FoundURLs(links) ==
    IF Len(links) = 0 THEN <<>>
    ELSE << Head(links) >> \o GetParentPaths(Head(links)) \o FoundURLs(Tail(links))

\* HTMLWorker.Handle: the newTasks of its single adder call
HTMLNewTasks(t, links) ==
    LET foundURLs == FoundURLs(links)
    IN  [k \in 1..Len(foundURLs) |-> [t EXCEPT !.URL = foundURLs[k]]]

\* HTMLWorker.Eligible, on the response's content type and length
Eligible(resp) == resp.html

results_NewResultForTask(t) ==
    [URL |-> t.URL, Code |-> 0, Redir |-> Nil, Error |-> FALSE]

ResultForResponse(t, resp, redir) ==
    [results_NewResultForTask(t) EXCEPT !.Code = resp.code, !.Redir = redir]

ResultForError(t, resp, redir) ==
    [(IF resp.kind # "neterr" THEN ResultForResponse(t, resp, redir)
      ELSE results_NewResultForTask(t)) EXCEPT !.Error = TRUE]

\* TryTask: err != nil && w.redir == nil
TryTaskFailed(resp, redir) ==
    resp.kind \in {"neterr", "resperr", "redirect"} /\ redir = Nil

\* faulty variant of TryTaskAdds: the page worker is started aside and TryTask does
\* not wait for it, so its Tasks are not added before TryTask returns
TryTaskAdds_PageWorkerAside(w, t, resp) ==
    (IF URLIsDir(t.URL) /\ KeepSpidering(resp.code) THEN << <<t>> >> ELSE <<>>)
    \o (IF w.redir # Nil THEN << << [t EXCEPT !.URL = w.redir[1]] >> >> ELSE <<>>)

\* TryTask, success branch: the adder calls it makes, in order
\*   w.adder(t) for a directory, spiderRedirect, runPageWorkers
TryTaskAdds(w, t, resp) ==
    (IF URLIsDir(t.URL) /\ KeepSpidering(resp.code) THEN << <<t>> >> ELSE <<>>)
    \o (IF w.redir # Nil THEN << << [t EXCEPT !.URL = w.redir[1]] >> >> ELSE <<>>)
    \o (IF w.pageWorker /\ Eligible(resp) THEN << HTMLNewTasks(t, resp.links) >> ELSE <<>>)

\* Run: case t, ok := <-w.src with ok: HandleTask(t) starts, TryTask(t) is entered
Run_Recv(i) ==
    /\ worker[i].pc = "select"
    /\ Len(outq) > 0
    /\ outq' = Tail(outq)
    /\ worker' = [worker EXCEPT ![i] =
                    [@ EXCEPT !.pc = "request", !.t = Head(outq), !.tt = Head(outq),
                              !.probe = 0, !.dones = 0, !.results = 0]]
    /\ hist' = [hist EXCEPT !.handled = @ + 1]
    /\ UNCHANGED << settings, drm, util, start, ctr, quiesced, inq, inClosed, fpc, ftask, done, exclusions,
                    outClosed, rchan, rClosed, sup >>

\* Run: case t, ok := <-w.src with !ok: return, the deferred send on waitq is next
Run_Closed(i) ==
    /\ worker[i].pc = "select"
    /\ Len(outq) = 0
    /\ outClosed
    /\ worker' = [worker EXCEPT ![i].pc = "exiting"]
    /\ UNCHANGED << settings, drm, util, start, ctr, quiesced, inq, inClosed, fpc, ftask, done, exclusions,
                    outq, outClosed, rchan, rClosed, sup, hist >>

\* where TryTask goes once an adder call has no Task left to send
AfterAdd(batches) == IF Len(batches) = 0 THEN "emit" ELSE "add"

\* faulty variant of TryTask_Request: w.redir is not cleared when the probe starts
TryTask_Request_NoClear(i) ==
    /\ worker[i].pc = "request"
    /\ \E resp \in Responses :
         /\ Len(resp.links) > 0 => hist.linkPages < MaxLinkPages
         /\ resp.redir # Nil => hist.redirects < MaxRedirects
         /\ hist' = [hist EXCEPT !.requested = BagAdd(@, worker[i].tt.URL),
                                 !.linkPages = IF Len(resp.links) > 0 THEN @ + 1 ELSE @,
                                 !.redirects = IF resp.redir # Nil THEN @ + 1 ELSE @]
         /\ LET w == worker[i]
               w1 == [w EXCEPT !.resp = resp,
                               !.redir = IF resp.redir # Nil THEN resp.redir ELSE @]
               failed == TryTaskFailed(resp, w1.redir)
               adds == IF failed THEN <<>> ELSE TryTaskAdds(w1, w.tt, resp)
               newTasks == IF ~failed /\ w.pageWorker /\ Eligible(resp)
                           THEN HTMLNewTasks(w.tt, resp.links) ELSE <<>>
           IN  worker' = [worker EXCEPT ![i] =
                            [w1 EXCEPT !.batches = adds, !.pc = AfterAdd(adds),
                                       !.base = Len(w.added),
                                       !.extracted = @ \o newTasks]]
    /\ UNCHANGED << settings, drm, util, start, ctr, quiesced, inq, inClosed, fpc, ftask, done, exclusions,
                    outq, outClosed, rchan, rClosed, sup >>

\* TryTask: w.redir = nil; w.client.Request(...) and the branch on (resp, err, w.redir)
TryTask_Request(i) ==
    /\ worker[i].pc = "request"
    /\ \E resp \in Responses :
         /\ Len(resp.links) > 0 => hist.linkPages < MaxLinkPages
         /\ resp.redir # Nil => hist.redirects < MaxRedirects
         /\ hist' = [hist EXCEPT !.requested = BagAdd(@, worker[i].tt.URL),
                                 !.linkPages = IF Len(resp.links) > 0 THEN @ + 1 ELSE @,
                                 !.redirects = IF resp.redir # Nil THEN @ + 1 ELSE @]
         /\ LET w == worker[i]
               \* w.redir = nil, then redirHandler stores the request if it runs
               w1 == [w EXCEPT !.resp = resp, !.redir = resp.redir]
               failed == TryTaskFailed(resp, w1.redir)
               adds == IF failed THEN <<>> ELSE TryTaskAdds(w1, w.tt, resp)
               newTasks == IF ~failed /\ w.pageWorker /\ Eligible(resp)
                           THEN HTMLNewTasks(w.tt, resp.links) ELSE <<>>
           IN  worker' = [worker EXCEPT ![i] =
                            [w1 EXCEPT !.batches = adds, !.pc = AfterAdd(adds),
                                       !.base = Len(w.added),
                                       !.extracted = @ \o newTasks]]
    /\ UNCHANGED << settings, drm, util, start, ctr, quiesced, inq, inClosed, fpc, ftask, done, exclusions,
                    outq, outClosed, rchan, rClosed, sup >>

\* faulty variant of Adder_Count: the Tasks go to the channel without being counted
Adder_Count_NoCount(i) ==
    /\ worker[i].pc = "add"
    /\ LET w == worker[i]
           tasks == Head(w.batches)
       IN  /\ hist' = [hist EXCEPT !.addCalls = @ + 1]
           /\ worker' = [worker EXCEPT ![i] =
                           [@ EXCEPT !.sendq = tasks, !.batches = Tail(@),
                                     !.added = @ \o tasks,
                                     !.pc = IF Len(tasks) = 0 THEN AfterAdd(Tail(w.batches))
                                            ELSE "send"]]
    /\ UNCHANGED << settings, drm, util, start, ctr, quiesced, inq, inClosed, fpc, ftask, done, exclusions,
                    outq, outClosed, rchan, rClosed, sup >>

\* w.adder(tasks...): the counter is raised by len(tasks)
Adder_Count(i) ==
    /\ worker[i].pc = "add"
    /\ LET w == worker[i]
           tasks == Head(w.batches)
       IN  /\ QueueAddCount(Len(tasks), hist)
           /\ worker' = [worker EXCEPT ![i] =
                           [@ EXCEPT !.sendq = tasks, !.batches = Tail(@),
                                     !.added = @ \o tasks,
                                     !.pc = IF Len(tasks) = 0 THEN AfterAdd(Tail(w.batches))
                                            ELSE "send"]]
    /\ UNCHANGED << settings, drm, util, start, quiesced, inq, inClosed, fpc, ftask, done, exclusions,
                    outq, outClosed, rchan, rClosed, sup >>

\* w.adder(tasks...): each Task is sent on the input channel
Adder_Send(i) ==
    /\ worker[i].pc = "send"
    /\ Len(inq) < settings.QueueSize
    /\ LET w == worker[i]
       IN  /\ inq' = Append(inq, Head(w.sendq))
           /\ worker' = [worker EXCEPT ![i] =
                           [@ EXCEPT !.sendq = Tail(@), !.sent = @ + 1,
                                     !.pc = IF Len(w.sendq) = 1 THEN AfterAdd(w.batches)
                                            ELSE "send"]]
    /\ UNCHANGED << settings, drm, util, start, ctr, quiesced, inClosed, fpc, ftask, done, exclusions,
                    outq, outClosed, rchan, rClosed, sup, hist >>

\* the Result TryTask sends for the probe
TryTaskResult(w) ==
    IF TryTaskFailed(w.resp, w.redir) THEN ResultForError(w.tt, w.resp, w.redir)
    ELSE ResultForResponse(w.tt, w.resp, w.redir)

\* faulty variant of TryTask_Emit: on the error path "if resp == nil { return 0 }" comes
\* before the send, so a probe without a response leaves no Result
TryTask_Emit_NilFirst(i) ==
    /\ worker[i].pc = "emit"
    /\ worker[i].resp.kind # "neterr" => Len(rchan) < settings.QueueSize
    /\ LET w == worker[i]
           sent == w.resp.kind # "neterr"
           clones == IF w.probe = 0 THEN HandleTaskClones(w.t, w.resp.code) ELSE w.clones
       IN  /\ rchan' = IF sent THEN Append(rchan, TryTaskResult(w)) ELSE rchan
           /\ worker' = [worker EXCEPT ![i] =
                           [@ EXCEPT !.results = IF sent THEN @ + 1 ELSE @,
                                     !.resp = NoResp,
                                     !.code = IF w.probe = 0 THEN w.resp.code ELSE @,
                                     !.clones = IF Len(clones) = 0 THEN <<>> ELSE Tail(clones),
                                     !.tt = IF Len(clones) = 0 THEN w.tt ELSE Head(clones),
                                     !.probe = IF Len(clones) = 0 THEN @ ELSE @ + 1,
                                     !.pc = IF Len(clones) = 0 THEN "done" ELSE "request"]]
    /\ UNCHANGED << settings, drm, util, start, ctr, quiesced, inq, inClosed, fpc, ftask, done, exclusions,
                    outq, outClosed, rClosed, sup, hist >>

\* faulty variant of TryTask_Emit: the error path marks the Task done itself, and
\* HandleTask marks it done again
TryTask_Emit_ErrDone(i) ==
    /\ worker[i].pc = "emit"
    /\ Len(rchan) < settings.QueueSize
    /\ LET w == worker[i]
           clones == IF w.probe = 0 THEN HandleTaskClones(w.t, w.resp.code) ELSE w.clones
       IN  /\ rchan' = Append(rchan, TryTaskResult(w))
           /\ IF w.resp.kind \in {"neterr", "resperr"}
              THEN QueueDone(1, hist)
              ELSE UNCHANGED << ctr, quiesced, hist >>
           /\ worker' = [worker EXCEPT ![i] =
                           [@ EXCEPT !.results = @ + 1,
                                     !.resp = NoResp,
                                     !.code = IF w.probe = 0 THEN w.resp.code ELSE @,
                                     !.clones = IF Len(clones) = 0 THEN <<>> ELSE Tail(clones),
                                     !.tt = IF Len(clones) = 0 THEN w.tt ELSE Head(clones),
                                     !.probe = IF Len(clones) = 0 THEN @ ELSE @ + 1,
                                     !.pc = IF Len(clones) = 0 THEN "done" ELSE "request"]]
    /\ UNCHANGED << settings, drm, util, start, inq, inClosed, fpc, ftask, done, exclusions,
                    outq, outClosed, rClosed, sup >>

\* w.rchan <- result and return; HandleTask / TryMangleTask pick the next probe
TryTask_Emit(i) ==
    /\ worker[i].pc = "emit"
    /\ Len(rchan) < settings.QueueSize
    /\ LET w == worker[i]
           clones == IF w.probe = 0 THEN HandleTaskClones(w.t, w.resp.code) ELSE w.clones
       IN  /\ rchan' = Append(rchan, TryTaskResult(w))
           /\ worker' = [worker EXCEPT ![i] =
                           [@ EXCEPT !.results = @ + 1,
                                     !.resp = NoResp,
                                     !.code = IF w.probe = 0 THEN w.resp.code ELSE @,
                                     !.clones = IF Len(clones) = 0 THEN <<>> ELSE Tail(clones),
                                     !.tt = IF Len(clones) = 0 THEN w.tt ELSE Head(clones),
                                     !.probe = IF Len(clones) = 0 THEN @ ELSE @ + 1,
                                     !.pc = IF Len(clones) = 0 THEN "done" ELSE "request"]]
    /\ UNCHANGED << settings, drm, util, start, ctr, quiesced, inq, inClosed, fpc, ftask, done, exclusions,
                    outq, outClosed, rClosed, sup, hist >>

\* faulty variant of HandleTask_Done: done(1) is called once per probe (the call sits in
\* TryTask), not once per Task
HandleTask_Done_PerProbe(i) ==
    /\ worker[i].pc = "done"
    /\ QueueDone(1 + worker[i].probe, [hist EXCEPT !.workerDones = @ + 1 + worker[i].probe])
    /\ worker' = [worker EXCEPT ![i] =
                    [@ EXCEPT !.dones = @ + 1 + worker[i].probe, !.pc = "select",
                              !.t = NoTask, !.tt = NoTask, !.probe = 0, !.code = 0,
                              !.results = 0, !.added = <<>>, !.sent = 0, !.base = 0,
                              !.extracted = <<>>]]
    /\ UNCHANGED << settings, drm, util, start, inq, inClosed, fpc, ftask, done, exclusions,
                    outq, outClosed, rchan, rClosed, sup >>

\* faulty variant of HandleTask_Done: done(1) is called while the last Result is still
\* to be sent
HandleTask_Done_BeforeResult(i) ==
    /\ worker[i].pc = "emit"
    /\ worker[i].dones = 0
    /\ QueueDone(1, [hist EXCEPT !.workerDones = @ + 1])
    /\ worker' = [worker EXCEPT ![i].dones = @ + 1]
    /\ UNCHANGED << settings, drm, util, start, inq, inClosed, fpc, ftask, done, exclusions,
                    outq, outClosed, rchan, rClosed, sup >>

\* HandleTask: w.done(1), back to the select of Run
HandleTask_Done(i) ==
    /\ worker[i].pc = "done"
    /\ QueueDone(1, [hist EXCEPT !.workerDones = @ + 1])
    /\ worker' = [worker EXCEPT ![i] =
                    [@ EXCEPT !.dones = @ + 1, !.pc = "select",
                              \* HandleTask returns: its locals are gone
                              !.t = NoTask, !.tt = NoTask, !.probe = 0, !.code = 0,
                              !.results = 0, !.added = <<>>, !.sent = 0, !.base = 0,
                              !.extracted = <<>>]]
    /\ UNCHANGED << settings, drm, util, start, inq, inClosed, fpc, ftask, done, exclusions,
                    outq, outClosed, rchan, rClosed, sup >>

(***************************************************************************)
(* Results channel reader.                                                 *)
(***************************************************************************)
Results_Recv ==
    /\ Len(rchan) > 0
    /\ rchan' = Tail(rchan)
    /\ UNCHANGED << settings, drm, util, start, ctr, quiesced, inq, inClosed, fpc, ftask, done, exclusions,
                    outq, outClosed, worker, rClosed, sup, hist >>

Next ==
    \/ Sup_Seed
    \/ Sup_Send
    \/ Sup_WaitQueue
    \/ Sup_CloseInput
    \/ Sup_CloseResults
    \/ RunFilter_Recv
    \/ RunFilter_Check
    \/ RunFilter_Send
    \/ RunFilter_Close
    \/ Results_Recv
    \/ \E i \in Workers : Worker_Wait(i)
    \/ \E i \in Workers : Run_Recv(i)
    \/ \E i \in Workers : Run_Closed(i)
    \/ \E i \in Workers : TryTask_Request(i)
    \/ \E i \in Workers : Adder_Count(i)
    \/ \E i \in Workers : Adder_Send(i)
    \/ \E i \in Workers : TryTask_Emit(i)
    \/ \E i \in Workers : HandleTask_Done(i)

Spec == Init /\ [][Next]_vars

(***************************************************************************)
(* The pipeline with a caller of Worker.Stop.                              *)
(***************************************************************************)
\* Stop(): w.stop <- true; the caller stays blocked until Run receives
Stop_Call(i) ==
    /\ worker[i].stop = "idle"
    /\ worker' = [worker EXCEPT ![i].stop = "sent"]
    /\ UNCHANGED << settings, drm, util, start, ctr, quiesced, inq, inClosed, fpc, ftask, done, exclusions,
                    outq, outClosed, rchan, rClosed, sup, hist >>

\* faulty variant of Run_Stop: the stop channel is also polled inside HandleTask
Run_Stop_MidTask(i) ==
    /\ worker[i].pc \notin {"exiting", "exited"}
    /\ worker[i].stop = "sent"
    /\ worker' = [worker EXCEPT ![i].pc = "exiting", ![i].stop = "taken"]
    /\ UNCHANGED << settings, drm, util, start, ctr, quiesced, inq, inClosed, fpc, ftask, done, exclusions,
                    outq, outClosed, rchan, rClosed, sup, hist >>

\* Run: case <-w.stop: return, the deferred send on waitq is next
Run_Stop(i) ==
    /\ worker[i].pc = "select"
    /\ worker[i].stop = "sent"
    /\ worker' = [worker EXCEPT ![i].pc = "exiting", ![i].stop = "taken"]
    /\ UNCHANGED << settings, drm, util, start, ctr, quiesced, inq, inClosed, fpc, ftask, done, exclusions,
                    outq, outClosed, rchan, rClosed, sup, hist >>

NextStop ==
    \/ Next
    \/ \E i \in Workers : Stop_Call(i)
    \/ \E i \in Workers : Run_Stop(i)

SpecStop == Init /\ [][NextStop]_vars

\* Wait() by the caller of Stop(), once its Stop() has returned: <-w.waitq, a rendezvous
\* with the deferred w.waitq <- true
Stop_Wait(i) ==
    /\ worker[i].stop = "taken"
    /\ worker[i].pc = "exiting"
    /\ worker' = [worker EXCEPT ![i].pc = "exited", ![i].stop = "waited"]
    /\ UNCHANGED << settings, drm, util, start, ctr, quiesced, inq, inClosed, fpc, ftask, done,
                    exclusions, outq, outClosed, rchan, rClosed, sup, hist >>

NextStopWait ==
    \/ NextStop
    \/ \E i \in Workers : Stop_Wait(i)

\* every goroutine that can take a step takes one: the pipeline's, a Worker's receive
\* from its stop channel, the rendezvous of a Wait(); nobody is bound to call Stop
FairStopWait ==
    /\ WF_vars(Next)
    /\ \A i \in 1..MaxWorkers : WF_vars(i \in Workers /\ Run_Stop(i))
    /\ \A i \in 1..MaxWorkers : WF_vars(i \in Workers /\ Stop_Wait(i))

SpecStopWait == Init /\ [][NextStopWait]_vars /\ FairStopWait

(***************************************************************************)
(* The pipeline while StartWorkers is still in its loop.                   *)
(***************************************************************************)
\* every Worker yet to be created; StartWorkers at the top of its loop
InitStart ==
    /\ settings \in SettingsSet
    /\ ctr = 0
    /\ quiesced = FALSE
    /\ inq = <<>>
    /\ inClosed = FALSE
    /\ fpc = "recv"
    /\ ftask = NoTask
    /\ done = {}
    /\ exclusions = NewExclusions(settings)
    /\ outq = <<>>
    /\ outClosed = FALSE
    /\ worker = [i \in 1..settings.Workers |->
                    [NewWorker(settings) EXCEPT !.pc = "new", !.pageWorker = FALSE]]
    /\ rchan = <<>>
    /\ rClosed = FALSE
    /\ sup = [pc |-> "seed", sendq |-> <<>>, waited |-> {}]
    /\ drm = NewDiffResultsManager
    /\ util = NoCall
    /\ start = [pc |-> "loop", i |-> 0]
    /\ hist = [ addCalls |-> 0, adds |-> 0, dones |-> 0, fires |-> 0,
                read |-> EmptyBag, readRaw |-> EmptyBag, forwarded |-> EmptyBag,
                rejected |-> EmptyBag,
                handled |-> 0, workerDones |-> 0, requested |-> EmptyBag,
                linkPages |-> 0, redirects |-> 0 ]

\* StartWorkers, loop body: workers[i] = NewWorker(...); workers[i].RunInBackground().
\* The goroutine runs Run from here on, its pageWorker field still nil.
StartWorkers_Run ==
    /\ start.pc = "loop"
    /\ start.i < settings.Workers
    /\ worker' = [worker EXCEPT ![start.i + 1].pc = "select"]
    /\ start' = [start EXCEPT !.i = @ + 1,
                              !.pc = IF PageWorkerWanted(settings) THEN "set" ELSE "loop"]
    /\ UNCHANGED << settings, drm, util, ctr, quiesced, inq, inClosed, fpc, ftask, done,
                    exclusions, outq, outClosed, rchan, rClosed, sup, hist >>

\* StartWorkers, loop body: workers[i].SetPageWorker(NewHTMLWorker(adder)), a write of
\* w.pageWorker that nothing orders with the reads of the goroutine started above
StartWorkers_SetPageWorker ==
    /\ start.pc = "set"
    /\ worker' = [worker EXCEPT ![start.i].pageWorker = TRUE]
    /\ start' = [start EXCEPT !.pc = "loop"]
    /\ UNCHANGED << settings, drm, util, ctr, quiesced, inq, inClosed, fpc, ftask, done,
                    exclusions, outq, outClosed, rchan, rClosed, sup, hist >>

\* StartWorkers: return workers
StartWorkers_Return ==
    /\ start.pc = "loop"
    /\ start.i = settings.Workers
    /\ start' = StartWorkersReturned(settings)
    /\ UNCHANGED << settings, drm, util, ctr, quiesced, inq, inClosed, fpc, ftask, done,
                    exclusions, outq, outClosed, worker, rchan, rClosed, sup, hist >>

NextStart ==
    \/ Next
    \/ StartWorkers_Run
    \/ StartWorkers_SetPageWorker
    \/ StartWorkers_Return

SpecStart == InitStart /\ [][NextStart]_vars

(***************************************************************************)
(* The differential results manager reading the Results channel.           *)
(***************************************************************************)
\* settings of the runs of the results manager: only QueueSize matters
DiffSettings ==
    [ Workers |-> 1, QueueSize |-> 1, Mangle |-> FALSE, ParseHTML |-> FALSE,
      RunMode |-> RunModeEnumeration, ExcludePaths |-> <<>> ]

\* the pipeline variables the results manager does not touch
pipelineVars == << settings, ctr, quiesced, inq, inClosed, fpc, ftask, done, exclusions,
                   outq, outClosed, worker, sup, util, start, hist >>

InitDiff ==
    /\ settings = DiffSettings
    /\ ctr = 0
    /\ quiesced = FALSE
    /\ inq = <<>>
    /\ inClosed = FALSE
    /\ fpc = "recv"
    /\ ftask = NoTask
    /\ done = {}
    /\ exclusions = NewExclusions(settings)
    /\ outq = <<>>
    /\ outClosed = FALSE
    /\ worker = [i \in 1..settings.Workers |-> NewWorker(settings)]
    /\ rchan = <<>>
    /\ rClosed = FALSE
    /\ sup = [pc |-> "seed", sendq |-> <<>>, waited |-> {}]
    /\ drm \in { [NewDiffResultsManager EXCEPT !.sinkOK = b] : b \in BOOLEAN }
    /\ util = NoCall
    /\ start = StartWorkersReturned(settings)
    /\ hist = [ addCalls |-> 0, adds |-> 0, dones |-> 0, fires |-> 0,
                read |-> EmptyBag, readRaw |-> EmptyBag, forwarded |-> EmptyBag,
                rejected |-> EmptyBag,
                handled |-> 0, workerDones |-> 0, requested |-> EmptyBag,
                linkPages |-> 0, redirects |-> 0 ]

\* AddGroup(baselineResults...), called before Run
DRM_AddGroup ==
    /\ drm.pc = "setup"
    /\ Cardinality(DOMAIN drm.samples) + drm.addErrs < MaxGroups
    /\ \E baselineResults \in SampleLists :
         LET got == NewBaselineResult(baselineResults)
         IN  drm' =
               IF got.kind = "err" THEN [drm EXCEPT !.addErrs = @ + 1]
               ELSE IF got.kind = "panic" THEN [drm EXCEPT !.pc = "panic"]
               ELSE LET baseline == got.res[1]
                        group == baseline.Result.ResultGroup
                    IN  [drm EXCEPT !.baselines = (group :> baseline) @@ @,
                                    !.samples = (group :> baselineResults) @@ @]
    /\ UNCHANGED << pipelineVars, rchan, rClosed >>

\* Run(rChan): the goroutine starts
DRM_Run ==
    /\ drm.pc = "setup"
    /\ drm' = [drm EXCEPT !.pc = "run"]
    /\ UNCHANGED << pipelineVars, rchan, rClosed >>

\* a Worker sends a Result
Diff_Produce ==
    /\ drm.pc \notin {"setup", "panic"}
    /\ ~rClosed
    /\ drm.produced < MaxResults
    /\ Len(rchan) < settings.QueueSize
    /\ \E result \in DiffResults : rchan' = Append(rchan, result)
    /\ drm' = [drm EXCEPT !.produced = @ + 1]
    /\ UNCHANGED << pipelineVars, rClosed >>

\* the Supervisor closes the Results channel
Diff_CloseResults ==
    /\ drm.pc \notin {"setup", "panic"}
    /\ ~rClosed
    /\ rClosed' = TRUE
    /\ UNCHANGED << pipelineVars, rchan, drm >>

\* faulty variant of DRM_Recv: a Result whose group has no baseline is dropped
DRM_Recv_NoBaselineDropped ==
    /\ drm.pc = "run"
    /\ Len(rchan) > 0
    /\ rchan' = Tail(rchan)
    /\ LET result == Head(rchan)
           kept == IF result.ResultGroup \notin DOMAIN drm.baselines THEN FALSE
                   ELSE ~Matches(drm.baselines[result.ResultGroup], result)
       IN  drm' = [drm EXCEPT !.recv = Append(@, result),
                              !.keep = IF kept THEN KeepAppend(@, result) ELSE @,
                              !.dropped = IF kept THEN @ ELSE @ + 1]
    /\ UNCHANGED << pipelineVars, rClosed >>

\* Run: one iteration of for result := range rChan
DRM_Recv ==
    /\ drm.pc = "run"
    /\ Len(rchan) > 0
    /\ rchan' = Tail(rchan)
    /\ LET result == Head(rchan)
           kept == IF result.ResultGroup \notin DOMAIN drm.baselines THEN TRUE
                   ELSE ~Matches(drm.baselines[result.ResultGroup], result)
       IN  drm' = [drm EXCEPT !.recv = Append(@, result),
                              !.keep = IF kept THEN KeepAppend(@, result) ELSE @,
                              !.dropped = IF kept THEN @ ELSE @ + 1]
    /\ UNCHANGED << pipelineVars, rClosed >>

\* Run: rChan closed and drained; the deferred function calls WriteResults, whose own
\* deferred function flushes and closes fp.  A sink that fails lets any of the groups
\* through before it does, and the error shows in WriteResults' return value only if
\* it hit an Fprintf (the result of the final Flush is dropped).
DRM_WriteResults ==
    /\ drm.pc = "run"
    /\ Len(rchan) = 0
    /\ rClosed
    /\ \E groups \in SUBSET DOMAIN drm.keep, failed \in BOOLEAN :
         /\ drm.sinkOK => groups = DOMAIN drm.keep /\ ~failed
         /\ ~drm.sinkOK => groups # DOMAIN drm.keep \/ DOMAIN drm.keep = {}
         /\ drm' = [drm EXCEPT !.out = [g \in groups |-> drm.keep[g]],
                               !.werr = failed,
                               !.flushed = TRUE,
                               !.fpClosed = TRUE,
                               !.pc = "written"]
    /\ UNCHANGED << pipelineVars, rchan, rClosed >>

\* faulty variant of DRM_CloseDone: close(drm.done) is not deferred and runs when the
\* goroutine starts
DRM_CloseDone_AtStart ==
    /\ drm.pc = "run"
    /\ drm.closes = 0
    /\ drm' = [drm EXCEPT !.closes = @ + 1]
    /\ UNCHANGED << pipelineVars, rchan, rClosed >>

\* Run's deferred function, after WriteResults: close(drm.done)
DRM_CloseDone ==
    /\ drm.pc = "written"
    /\ drm' = [drm EXCEPT !.closes = @ + 1, !.pc = "closed"]
    /\ UNCHANGED << pipelineVars, rchan, rClosed >>

\* Wait(): <-drm.done returns once done is closed
DRM_Wait ==
    /\ drm.closes > 0
    /\ ~drm.waited
    /\ drm' = [drm EXCEPT !.waited = TRUE]
    /\ UNCHANGED << pipelineVars, rchan, rClosed >>

NextDiff ==
    \/ DRM_AddGroup
    \/ DRM_Run
    \/ Diff_Produce
    \/ Diff_CloseResults
    \/ DRM_Recv
    \/ DRM_WriteResults
    \/ DRM_CloseDone
    \/ DRM_Wait

SpecDiff == InitDiff /\ [][NextDiff]_vars

(***************************************************************************)
(* util.GetParentPaths called on the URLs of a bounded set of paths.       *)
(***************************************************************************)
\* most segments after the leading "/" of a path handed to GetParentPaths
MaxSegments == 3

\* the segments paths are built from: names, the empty segment, "." and ".."
Segments == { "a", "b", "c", "", ".", ".." }

\* "/" followed by up to MaxSegments segments, with and without a trailing "/"
ChildPaths ==
    LET bodies == UNION { [1..n -> Segments] : n \in 1..MaxSegments }
        plain == { "/" \o Join(b) : b \in bodies }
    IN  {"/"} \cup plain \cup { q \o "/" : q \in plain }

InitPaths ==
    /\ settings = DiffSettings
    /\ ctr = 0
    /\ quiesced = FALSE
    /\ inq = <<>>
    /\ inClosed = FALSE
    /\ fpc = "recv"
    /\ ftask = NoTask
    /\ done = {}
    /\ exclusions = NewExclusions(settings)
    /\ outq = <<>>
    /\ outClosed = FALSE
    /\ worker = [i \in 1..settings.Workers |-> NewWorker(settings)]
    /\ rchan = <<>>
    /\ rClosed = FALSE
    /\ sup = [pc |-> "seed", sendq |-> <<>>, waited |-> {}]
    /\ drm = NewDiffResultsManager
    /\ util \in { [pc |-> "call", child |-> URL(q, ""), results |-> <<>>] : q \in ChildPaths }
    /\ start = StartWorkersReturned(settings)
    /\ hist = [ addCalls |-> 0, adds |-> 0, dones |-> 0, fires |-> 0,
                read |-> EmptyBag, readRaw |-> EmptyBag, forwarded |-> EmptyBag,
                rejected |-> EmptyBag,
                handled |-> 0, workerDones |-> 0, requested |-> EmptyBag,
                linkPages |-> 0, redirects |-> 0 ]

\* results = GetParentPaths(child)
GetParentPaths_Call ==
    /\ util.pc = "call"
    /\ util' = [util EXCEPT !.results = GetParentPaths(util.child), !.pc = "returned"]
    /\ UNCHANGED << settings, ctr, quiesced, inq, inClosed, fpc, ftask, done, exclusions,
                    outq, outClosed, worker, rchan, rClosed, sup, drm, start, hist >>

NextPaths == GetParentPaths_Call

SpecPaths == InitPaths /\ [][NextPaths]_vars


(***************************************************************************)
(* Properties.                                                             *)
(***************************************************************************)
InHandleTask(i) == worker[i].pc \in {"request", "add", "send", "emit", "done"}

\* Tasks a Worker accounts for: the one it handles and those its Add has yet to send
WorkerHolds(i) == (IF InHandleTask(i) THEN 1 ELSE 0) + Len(worker[i].sendq)

RECURSIVE SumWorkers(_)
SumWorkers(S) ==
    IF S = {} THEN 0
    ELSE LET i == CHOOSE x \in S : TRUE IN WorkerHolds(i) + SumWorkers(S \ {i})

\* Tasks passed to Add that are somewhere between Add and reject / done(1)
InFlight ==
    Len(sup.sendq) + Len(inq) + (IF fpc \in {"check", "send"} THEN 1 ELSE 0)
        + Len(outq) + SumWorkers(Workers)

PipelineEmpty ==
    /\ Len(sup.sendq) = 0
    /\ Len(inq) = 0
    /\ fpc \in {"recv", "closed"}
    /\ Len(outq) = 0
    /\ \A i \in Workers : ~InHandleTask(i) /\ Len(worker[i].sendq) = 0

MangledURLs == { URL("/" \o n, "") : n \in { Mangle("f")[k] : k \in 1..4 } }

\* C1: the outstanding counter equals the number of Tasks passed to Add and neither
\* rejected by the Filter nor finished by a Worker, wherever they are in the
\* pipeline (a mangled probe is not counted); it is never negative; once
\* quiescence has fired the counter is 0 and the Add total equals the Done total.
C1_OutstandingCounts ==
    /\ ctr = InFlight
    /\ ctr = hist.adds - BagTotal(hist.rejected) - hist.workerDones
    /\ ctr >= 0
    /\ quiesced => ctr = 0 /\ hist.adds = hist.dones

\* C1 witness: quiescence fired in a run with a rejected Task, Tasks added by a
\* Worker and mangled probes.
C1_Witness ==
    /\ quiesced
    /\ hist.adds > Len(Seeds)
    /\ BagTotal(hist.rejected) > 0
    /\ \E u \in MangledURLs : u \in DOMAIN hist.requested

\* C2: when the quiescence signal has fired, no Task is in the input channel, in the
\* Filter, in the filtered channel, handled by a Worker or waiting to be sent by an
\* Add under way.
C2_NoFalseQuiescence == quiesced => PipelineEmpty

\* C2 witness: quiescence fired after Workers re-enqueued a directory Task, a
\* redirect target and extracted links.
C2_Witness ==
    /\ quiesced
    /\ hist.redirects > 0
    /\ hist.linkPages > 0
    /\ BagCount(hist.rejected, << URL("/", ""), "already done" >>) > 0
    /\ Cardinality(Workers) > 1

\* all Workers blocked in Add on the full input channel, the Filter blocked sending
\* on the full filtered channel
PipelineStuck ==
    /\ \A i \in Workers : worker[i].pc = "send"
    /\ Len(inq) >= settings.QueueSize
    /\ fpc = "send"
    /\ Len(outq) >= settings.QueueSize

\* C3: the pipeline never gets stuck with the Workers blocked in Add and the Filter
\* blocked on its output, and a run stops only after quiescence was reached and
\* the Supervisor has shut the pipeline down.
C3_NeverStuck ==
    /\ ~PipelineStuck
    /\ (~ENABLED Next) => (quiesced /\ sup.pc = "end")

\* C4: the quiescence signal fires once: Done saw the counter reach zero at most once,
\* the signal is set exactly when it did, and from then on the counter is zero.
C4_FiresOnce ==
    /\ hist.fires <= 1
    /\ quiesced <=> hist.fires = 1
    /\ quiesced => ctr = 0
    /\ sup.pc \in {"close", "join", "end"} => hist.fires = 1

\* C4 witness: a finished run that grew beyond its seeds and fired once.
C4_Witness ==
    /\ sup.pc = "end"
    /\ hist.fires = 1
    /\ hist.adds > Len(Seeds)
    /\ hist.workerDones > 1

\* C5: once the quiescence signal has fired, no step calls Add.
C5_NoAddAfterQuiescence == [][quiesced => hist.addCalls' = hist.addCalls]_vars

\* C5 witness: quiescence has fired in a run where Workers did call Add (directory
\* re-enqueue, redirect, extractor) and the run went on to its end.
C5_Witness ==
    /\ quiesced
    /\ sup.pc = "end"
    /\ hist.addCalls > 3

\* the canonical key of a Task with this URL: its String() once the fragment is cleared
CanonicalKey(u) == TaskString(NewTask([u EXCEPT !.Fragment = ""]))

KeyURLs(b, key) == { u \in DOMAIN b : CanonicalKey(u) = key }

ReadKeys == { CanonicalKey(u) : u \in DOMAIN hist.read }

Forwarded(key) == SumOver(hist.forwarded, KeyURLs(hist.forwarded, key))

Rejected(key, reason) ==
    LET S == { x \in DOMAIN hist.rejected : CanonicalKey(x[1]) = key /\ x[2] = reason }
    IN  SumOver(hist.rejected, S)

\* C6: among the Tasks the Filter read with one canonical key, at most one is
\* forwarded; the first is forwarded or rejected as excluded, every later one is
\* rejected as "already done".
C6_OneForwardPerKey ==
    \A key \in ReadKeys :
        LET reads == SumOver(hist.read, KeyURLs(hist.read, key))
            inCheck == IF fpc = "check" /\ CanonicalKey(ftask.URL) = key THEN 1 ELSE 0
            inSend == IF fpc = "send" /\ CanonicalKey(ftask.URL) = key THEN 1 ELSE 0
        IN  /\ Forwarded(key) + inSend + Rejected(key, "excluded") <= 1
            /\ reads = Forwarded(key) + inSend + inCheck
                         + Rejected(key, "excluded") + Rejected(key, "already done")
            /\ reads - inCheck >= 1 =>
                 Rejected(key, "already done") = reads - inCheck - 1

\* C6 witness: a key whose first Task was rejected as excluded and whose next was
\* rejected as already done, and a key forwarded once and then rejected.
C6_Witness ==
    /\ \E key \in ReadKeys :
         Rejected(key, "excluded") = 1 /\ Rejected(key, "already done") >= 1
    /\ \E key \in ReadKeys :
         Forwarded(key) = 1 /\ Rejected(key, "already done") >= 1

\* C7: across a run no URL is requested from the server more than once.
C7_EachURLRequestedOnce ==
    \A u \in DOMAIN hist.requested : hist.requested[u] <= 1

\* C8: no Task whose URL is a subpath of an exclusion is forwarded by the Filter or
\* requested by a Worker; each one read by the Filter is rejected (counted Done) once.
C8_ExcludedNeverScanned ==
    /\ \A u \in DOMAIN hist.forwarded : ~Excluded(NewTask(u))
    /\ \A u \in DOMAIN hist.requested : ~Excluded(NewTask(u))
    /\ \A u \in DOMAIN hist.read :
         Excluded(NewTask(u)) =>
            hist.read[u] = BagCount(hist.rejected, << u, "excluded" >>)
                             + BagCount(hist.rejected, << u, "already done" >>)
                             + (IF fpc = "check" /\ ftask.URL = u THEN 1 ELSE 0)

\* C9: done(1) is called exactly once per Task that entered HandleTask: not before
\* HandleTask reaches its end, once when it has returned.
C9_DoneOncePerTask ==
    /\ \A i \in Workers :
         /\ InHandleTask(i) => worker[i].dones = 0
         /\ worker[i].dones <= 1
    /\ hist.workerDones = hist.handled - Cardinality({ i \in Workers : InHandleTask(i) })

\* C9 witness: HandleTask has returned, done(1) called once, in a run where mangled
\* clones were probed and a probe was redirected.
C9_Witness ==
    /\ \E i \in Workers : worker[i].pc = "select" /\ worker[i].dones = 1
    /\ hist.redirects > 0
    /\ \E u \in MangledURLs : u \in DOMAIN hist.requested
    /\ hist.workerDones > 1

\* C10: every probe sends exactly one Result: inside the k-th TryTask of a Task the
\* Worker has sent k - 1 Results for it, and k when that TryTask has returned.
C10_OneResultPerProbe ==
    \A i \in Workers :
        /\ worker[i].pc \in {"request", "add", "send", "emit"} =>
              worker[i].results = worker[i].probe
        /\ worker[i].pc = "done" => worker[i].results = worker[i].probe + 1

\* C10 witness: a Task and its four mangled clones have been probed, five Results
\* were sent, the last from the error path.
C10_Witness ==
    \E i \in Workers :
        /\ worker[i].pc = "done"
        /\ worker[i].probe = 4
        /\ worker[i].results = 5
        /\ Len(rchan) > 0
        /\ rchan[Len(rchan)].Error

\* C11: shutdown is ordered: the input channel is closed only after quiescence, the
\* Filter closes its output only after the input is closed and drained, a Worker
\* leaves Run only after the filtered channel is closed and drained, and the
\* Results channel is closed only after every Worker has posted its termination,
\* so that no Worker is inside a probe (about to send a Result) once it is closed.
C11_ShutdownOrdered ==
    /\ inClosed => quiesced
    /\ outClosed => inClosed /\ Len(inq) = 0
    /\ \A i \in Workers :
         worker[i].pc \in {"exiting", "exited"} => outClosed /\ Len(outq) = 0
    /\ rClosed => \A i \in Workers : worker[i].pc = "exited" /\ ~InHandleTask(i)
    /\ rClosed => sup.waited = Workers

\* C11 witness: the Results channel was closed in a run of two Workers that handled
\* several Tasks.
C11_Witness ==
    /\ rClosed
    /\ Cardinality(Workers) = 2
    /\ hist.handled > 2

\* the matching rule: on every Significant dimension of the baseline the Result has
\* the baseline's value
AllSignificantEqual(b, a) ==
    /\ b.PathSignificant => a.URL.Path = b.Result.URL.Path
    /\ b.CodeSignificant => a.Code = b.Result.Code
    /\ \A h \in b.HeadersSignificant :
         /\ h \in DOMAIN a.ResponseHeader
         /\ a.ResponseHeader[h] = b.Result.ResponseHeader[h]

\* C12: for every Result the results manager compared with its group's baseline,
\* Matches returned true exactly when the Result equals the baseline on every
\* Significant dimension: path, code and each header of HeadersSignificant.
C12_MatchesAllSignificant ==
    \A k \in 1..Len(drm.recv) :
        LET a == drm.recv[k]
        IN  a.ResultGroup \in DOMAIN drm.baselines =>
              (Matches(drm.baselines[a.ResultGroup], a)
                 <=> AllSignificantEqual(drm.baselines[a.ResultGroup], a))

\* the Results read for group g that have no baseline or that Matches rejects, in
\* arrival order
ExpectedWritten(g) ==
    SelectSeq(drm.recv,
              LAMBDA r : /\ r.ResultGroup = g
                         /\ \/ g \notin DOMAIN drm.baselines
                            \/ ~Matches(drm.baselines[g], r))

ExpectedHeadersSignificant(ss) ==
    LET names == UNION { { ToLower(K) : K \in DOMAIN ss[j].ResponseHeader } :
                           j \in 1..Len(ss) }
    IN  { h \in names :
            /\ h \notin {"etag", "cache-control"}
            /\ \E K1 \in DOMAIN ss[1].ResponseHeader :
                  /\ ToLower(K1) = h
                  /\ \A j \in 1..Len(ss) :
                        \E K \in DOMAIN ss[j].ResponseHeader :
                            /\ ToLower(K) = h
                            /\ ss[j].ResponseHeader[K] = ss[1].ResponseHeader[K1] }

\* C14: no AddGroup call failed otherwise than by the error for an empty sample
\* list, which leaves the baselines as they were; every baseline was built from a
\* non-empty sample list and has Code, Path and each header Significant exactly when
\* identical across the samples, etag and cache-control never.
C14_BaselineSignificance ==
    /\ drm.pc # "panic"
    /\ DOMAIN drm.baselines = DOMAIN drm.samples
    /\ \A g \in DOMAIN drm.baselines :
         LET ss == drm.samples[g]
             b == drm.baselines[g]
         IN  /\ Len(ss) > 0
             /\ b.CodeSignificant <=> \A j \in 1..Len(ss) : ss[j].Code = ss[1].Code
             /\ b.PathSignificant <=> \A j \in 1..Len(ss) : ss[j].URL.Path = ss[1].URL.Path
             /\ b.HeadersSignificant = ExpectedHeadersSignificant(ss)

RECURSIVE KeptTotal(_, _)
KeptTotal(keep, S) ==
    IF S = {} THEN 0
    ELSE LET g == CHOOSE x \in S : TRUE IN Len(keep[g]) + KeptTotal(keep, S \ {g})

\* C20: done is closed at most once, and only after the Results channel was closed
\* and drained, every Result sent was read and either kept or dropped, and
\* WriteResults has run with its flush and close, the output equal to the kept
\* Results when the sink accepts the writes; Wait returns only once done is closed.
C20_WaitAfterWritten ==
    /\ drm.closes <= 1
    /\ drm.pc = "closed" <=> drm.closes = 1
    /\ drm.waited => drm.closes = 1
    /\ drm.closes = 1 =>
          /\ rClosed
          /\ Len(rchan) = 0
          /\ Len(drm.recv) = drm.produced
          /\ Len(drm.recv) = KeptTotal(drm.keep, DOMAIN drm.keep) + drm.dropped
          /\ drm.flushed /\ drm.fpClosed
          /\ drm.sinkOK => drm.out = drm.keep /\ ~drm.werr

\* C20 witness: Wait has returned in a run whose WriteResults returned an error, after
\* Results were kept and dropped.
C20_Witness ==
    /\ drm.waited
    /\ drm.werr
    /\ drm.dropped > 0
    /\ KeptTotal(drm.keep, DOMAIN drm.keep) > 1

\* C15: when a Worker calls done(1) for a Task it has sent the Task's Result and the
\* Results of all its mangled probes (four when mangling applies, none otherwise).
C15_ResultsBeforeDone ==
    [][\A i \in Workers :
          (worker[i].dones = 0 /\ worker'[i].dones > 0) =>
              worker[i].results =
                  1 + (IF settings.Mangle /\ ~URLIsDir(worker[i].t.URL)
                             /\ KeepSpidering(worker[i].code)
                       THEN 4 ELSE 0)]_vars

\* C15 witness: done(1) has been called for a Task, in a run with mangled probes.
C15_Witness ==
    /\ settings.Mangle
    /\ hist.workerDones > 1
    /\ \E u \in MangledURLs : u \in DOMAIN hist.requested
    /\ \E i \in Workers : worker[i].pc = "select" /\ worker[i].dones = 1

\* whether seq occurs in s as a run of consecutive elements
IsSegment(seq, s) ==
    \/ Len(seq) = 0
    \/ \E j \in 0..(Len(s) - Len(seq)) : SubSeq(s, j + 1, j + Len(seq)) = seq

\* C16: the Tasks the HTML extractor built for a Task are counted in one piece and all
\* sent on the input channel before the Worker calls done(1) for the Task; an Add
\* counts before it sends, and while the Task is handled the counter is at least 1
\* and quiescence has not fired.
C16_ExtractedEnqueuedBeforeDone ==
    \A i \in Workers :
        LET w == worker[i]
        IN  /\ w.sent <= Len(w.added)
            /\ InHandleTask(i) => ctr >= 1 /\ ~quiesced
            /\ w.pc \in {"emit", "done"} =>
                  /\ w.sent = Len(w.added)
                  /\ IsSegment(w.extracted, w.added)

\* C16 witness: a Worker is about to call done(1) for a Task whose page gave several
\* Tasks, added after the re-enqueued directory Task.
C16_Witness ==
    \E i \in Workers :
        /\ worker[i].pc = "done"
        /\ Len(worker[i].extracted) >= 2
        /\ Len(worker[i].added) > Len(worker[i].extracted)
        /\ worker[i].sent = Len(worker[i].added)

\* the mangled names, in the order of the rule list
MangledNamesInOrder(base) ==
    << "." \o base \o ".swp", base \o "~", base \o ".bak", base \o ".orig" >>

\* C17: a Worker is in its k-th mangled probe only with Mangle set, for a Task that
\* is no directory and whose first probe's code permits spidering, and probes the
\* k-th of .<base>.swp, <base>~, <base>.bak, <base>.orig in the Task's directory;
\* HandleTask ends after 0 or after all 4 mangled probes, each with its Result; a
\* mangled probe passes to Add only what its response calls for (the follow-up of a
\* redirect, the Tasks of the extractor), never the mangled Task on its own account;
\* a path without "/" is not mangled.
C17_MangleOrder ==
    /\ \A i \in Workers :
         LET w == worker[i]
             p == w.t.URL.Path
             mangles == settings.Mangle /\ ~URLIsDir(w.t.URL) /\ KeepSpidering(w.code)
         IN  /\ w.probe \in 0..4
             /\ w.probe > 0 =>
                   /\ mangles
                   /\ \E n \in 1..Len(p) :
                        /\ Ch(p, n) = "/"
                        /\ \A m \in (n + 1)..Len(p) : Ch(p, m) # "/"
                        /\ w.tt = [w.t EXCEPT !.URL.Path =
                                     SubSeq(p, 1, n)
                                       \o MangledNamesInOrder(SubSeq(p, n + 1, Len(p)))[w.probe]]
                   /\ w.pc = "emit" =>
                         SubSeq(w.added, w.base + 1, Len(w.added)) =
                             (IF w.resp.redir # Nil
                              THEN << [w.tt EXCEPT !.URL = w.resp.redir[1]] >> ELSE <<>>)
                             \o (IF w.resp.kind = "ok" /\ w.pageWorker /\ w.resp.html
                                 THEN HTMLNewTasks(w.tt, w.resp.links) ELSE <<>>)
             /\ w.pc = "done" =>
                   /\ w.probe = (IF mangles THEN 4 ELSE 0)
                   /\ w.results = w.probe + 1
    /\ settings.Mangle => TryMangleTask(NewTask(PathURL("f"))) = <<>>

\* C17 witness: the third mangled probe of /f, for /f.bak, is about to send its Result.
C17_Witness ==
    \E i \in Workers :
        /\ worker[i].pc = "emit"
        /\ worker[i].probe = 3
        /\ worker[i].t.URL.Path = "/f"
        /\ worker[i].tt.URL.Path = "/f.bak"

\* C18: in every probe the Result carries Redir exactly when the redirect handler
\* ran during that probe, and then it carries that target and no Error; when the
\* probe has made its adder calls it has added the follow-up Task (the probed Task
\* with the target as URL) once if the handler ran, and otherwise nothing beyond the
\* re-enqueued directory Task and the extracted Tasks.
C18_RedirectPerProbe ==
    \A i \in Workers :
        LET w == worker[i]
            fired == w.resp.redir # Nil
            res == TryTaskResult(w)
            probeAdds == SubSeq(w.added, w.base + 1, Len(w.added))
            dirAdds == IF ~TryTaskFailed(w.resp, Nil) /\ w.resp.kind = "ok"
                          /\ URLIsDir(w.tt.URL) /\ KeepSpidering(w.resp.code)
                       THEN 1 ELSE 0
            pageAdds == IF w.resp.kind = "ok" /\ w.pageWorker /\ w.resp.html
                        THEN Len(HTMLNewTasks(w.tt, w.resp.links)) ELSE 0
        IN  /\ w.pc \in {"add", "send", "emit"} =>
                  /\ res.Redir = w.resp.redir
                  /\ fired => ~res.Error
            /\ w.pc = "emit" =>
                  IF fired
                  THEN Cardinality({ k \in DOMAIN probeAdds :
                                       probeAdds[k] = [w.tt EXCEPT !.URL = w.resp.redir[1]] }) = 1
                  ELSE Len(probeAdds) = dirAdds + pageAdds

\* C18 witness: a mangled probe that ended in an error is about to send its Result,
\* after an earlier probe of the same Task was redirected and its follow-up added.
C18_Witness ==
    \E i \in Workers :
        /\ worker[i].pc = "emit"
        /\ worker[i].probe > 0
        /\ worker[i].resp.kind = "resperr"
        /\ worker[i].base >= 1
        /\ \E k \in 1..worker[i].base :
              worker[i].added[k].URL \in RedirTargets

\* C19: a Worker leaves Run only from its select, and only when a stop was sent or
\* the source is closed and drained; a Worker inside HandleTask stays inside it, stop
\* sent or not, until it has sent a Result and called done(1); once it leaves Run it
\* can only post to waitq, and once it has posted it does nothing more.
C19_StopBetweenTasks ==
    [][\A i \in Workers :
          /\ (worker[i].pc \notin {"exiting", "exited"} /\ worker'[i].pc = "exiting") =>
                /\ worker[i].pc = "select"
                /\ worker[i].stop = "sent" \/ (outClosed /\ Len(outq) = 0)
          /\ InHandleTask(i) =>
                \/ worker'[i].pc \in {"request", "add", "send", "emit", "done"}
                \/ /\ worker'[i].pc = "select"
                   /\ worker[i].results >= 1
                   /\ worker'[i].dones = 1
          /\ worker[i].pc = "exiting" => worker'[i].pc \in {"exiting", "exited"}
          /\ worker[i].pc = "exited" => worker'[i].pc = "exited"]_vars

\* C19 witness: a Worker that was sent a stop while inside HandleTask has finished
\* the Task's probes and is about to call done(1), the stop still waiting.
C19_Witness ==
    \E i \in Workers :
        /\ worker[i].pc = "done"
        /\ worker[i].stop = "sent"
        /\ worker[i].results >= 1


\* C21: every URL GetParentPaths returns for a child is a strict ancestor of the child:
\* URLIsSubpath(p, child) holds, its path is neither the child's path nor the root, and
\* the parents of /a/b/c are /a and /a/b, in that order.
C21_ParentPathsStrict ==
    util.pc = "returned" =>
        /\ \A k \in 1..Len(util.results) :
              /\ URLIsSubpath(util.results[k], util.child)
              /\ util.results[k].Path # util.child.Path
              /\ util.results[k].Path # "/"
        /\ util.child.Path = "/a/b/c" =>
              [k \in 1..Len(util.results) |-> util.results[k].Path] = << "/a", "/a/b" >>


\* the URL with its fragment cleared
NoFragment(u) == [u EXCEPT !.Fragment = ""]

\* Tasks a Worker holds while it handles one: HandleTask's t, TryTask's t, the clones
WorkerTaskURLs(i) ==
    LET w == worker[i]
    IN  IF ~InHandleTask(i) THEN {}
        ELSE {w.t.URL} \cup (IF w.tt = NoTask THEN {} ELSE {w.tt.URL})
                 \cup { w.clones[k].URL : k \in 1..Len(w.clones) }

\* C22: every Task past the Filter (checked against the seen set, waiting in the
\* output channel, forwarded, held or mangled by a Worker, requested) has an empty
\* fragment, and of the Tasks read whose URLs differ only in fragment at most one is
\* forwarded.
C22_NoFragmentPastFilter ==
    /\ fpc \in {"check", "send"} => ftask.URL.Fragment = ""
    /\ \A k \in 1..Len(outq) : outq[k].URL.Fragment = ""
    /\ \A u \in DOMAIN hist.forwarded : u.Fragment = ""
    /\ \A i \in Workers : \A u \in WorkerTaskURLs(i) : u.Fragment = ""
    /\ \A u \in DOMAIN hist.requested : u.Fragment = ""
    /\ \A r \in DOMAIN hist.readRaw :
          LET same == { u \in DOMAIN hist.forwarded : NoFragment(u) = NoFragment(r) }
          IN  SumOver(hist.forwarded, same)
                  + (IF fpc = "send" /\ NoFragment(ftask.URL) = NoFragment(r) THEN 1 ELSE 0) <= 1

\* C22 witness: the Filter read /f#x and later /f, forwarded one Task for them, and a
\* Worker requested /f and a mangled copy of it.
C22_Witness ==
    /\ BagCount(hist.readRaw, URL("/f", "x")) >= 1
    /\ BagCount(hist.readRaw, URL("/f", "")) >= 1
    /\ BagCount(hist.forwarded, URL("/f", "")) = 1
    /\ BagCount(hist.requested, URL("/f", "")) >= 1
    /\ \E k \in 1..Len(Mangle("f")) : BagCount(hist.requested, URL("/" \o Mangle("f")[k], "")) >= 1


\* where the caller of Stop() and Wait() on Worker i is
StopIs(i, pos) == i \in Workers /\ worker[i].stop = pos

\* C23: a Stop() that was called returns, and the Wait() that follows it returns:
\* the value sent on w.stop is received by Run, and once it was the Worker's post on
\* w.waitq meets a Wait() (the caller's, or the Supervisor's if that one comes first).
C23_StopAndWaitReturn ==
    \A i \in 1..MaxWorkers :
        /\ StopIs(i, "sent") ~> StopIs(i, "taken")
        /\ StopIs(i, "taken") ~> (i \in Workers /\ worker[i].pc = "exited")


\* C24: when the settings ask for the HTML link extractor, a Worker that handles a Task
\* has it attached: no Worker is inside HandleTask with w.pageWorker nil, so every
\* eligible response goes to the extractor.
C24_PageWorkerAttachedFirst ==
    PageWorkerWanted(settings) =>
        \A i \in Workers :
            /\ InHandleTask(i) => worker[i].pageWorker
            /\ (worker[i].pc \in {"add", "send", "emit"} /\ worker[i].resp.kind = "ok"
                    /\ Eligible(worker[i].resp) /\ Len(worker[i].resp.links) > 0)
                  => worker[i].extracted # <<>>

=============================================================================
